---- MODULE Spec2Model ----
(***************************************************************************)
(* Model of the FreelanceForge credentials pallet                          *)
(* (substrate-node/pallets/freelance-credentials/src/lib.rs).              *)
(*                                                                         *)
(* State: the two storage maps Credentials and OwnerCredentials and the    *)
(* log of deposited events.  One action per extrinsic: mint_credential,    *)
(* update_credential, delete_credential.  Every extrinsic is a pure        *)
(* operator from (storage, caller, arguments) to (storage, result); the    *)
(* actions apply it and record the call and its result in `last`.          *)
(*                                                                         *)
(* A metadata blob is modelled by its length and a tag that stands for its *)
(* bytes: [len |-> n, body |-> b].                                         *)
(*                                                                         *)
(* Spec starts from the empty storage and dispatches any sequence of       *)
(* calls.  SpecRun is Spec explored up to each run's first rejected call;  *)
(* SpecCap is the same from the storage in which one account holds 499     *)
(* credentials, so that the limit of 500 is met with its real value.       *)
(***************************************************************************)
EXTENDS Integers, Sequences, FiniteSets, TLC

\* ------------------------------------------------------------------ bounds

\* Number of signed origins (AccountId is u64 in the mock runtime).
NumAccounts == 2
\* Number of distinct contents of short metadata.
NumBodies == 1
\* Successful extrinsics dispatched in one run.
MaxCalls == 3
\* Width of the modelled hash output: ids are 0 .. HashSpace - 1.
HashSpace == 2048

\* ------------------------------------------------------- program constants

\* BoundedVec<u8, ConstU32<4096>>
MaxMetadataLen == 4096
\* BoundedVec<T::Hash, ConstU32<500>>
MaxOwnerCredentials == 500
\* ensure!(owner_credentials.len() < 500, ...)
MintLimit == 500

\* ------------------------------------------------------------------ inputs

Accounts == 1 .. NumAccounts

\* The metadata_json / new_metadata arguments of the calls: short blobs of
\* NumBodies different contents, one blob of exactly the largest length
\* that fits, and blobs one byte and many bytes longer than that.
Metadata ==
  [len : {1}, body : 1 .. NumBodies]
    \cup [len : {MaxMetadataLen, MaxMetadataLen + 1, 2 * MaxMetadataLen}, body : {1}]

\* Value of last.id when a call computed no credential id.
NoId == 0 - 1
NoMetadata == [len |-> 0, body |-> 0]

\* ------------------------------------------------------- storage primitives

\* Mutant of try_into_ok: the conversion accepts every length.
try_into_ok_unbounded(md) == TRUE

\* Mutant of try_into_ok: the bound is exclusive (off by one).
try_into_ok_exclusive(md) == md.len < MaxMetadataLen

\* Vec<u8> -> BoundedVec<u8, ConstU32<4096>>: Ok iff the length fits.
try_into_ok(md) == md.len <= MaxMetadataLen

\* T::Hashing::hash: a deterministic digest of the bytes, of fixed width.
Hash(md) == (md.len * 31 + md.body) % HashSpace

\* StorageMap::contains_key
contains_key(map, id) == id \in DOMAIN map

\* StorageMap::insert: insert or overwrite one key.
insert(map, k, v) == (k :> v) @@ map

\* StorageMap::remove: no-op when the key is absent.
remove(map, k) == [x \in (DOMAIN map) \ {k} |-> map[x]]

\* Mutant of try_push: the new id goes to the front of the list.
try_push_front(v, x) ==
  IF Len(v) < MaxOwnerCredentials
    THEN [ok |-> TRUE, v |-> <<x>> \o v]
    ELSE [ok |-> FALSE, v |-> v]

\* BoundedVec::try_push: Err when the vector already holds its bound.
try_push(v, x) ==
  IF Len(v) < MaxOwnerCredentials
    THEN [ok |-> TRUE, v |-> Append(v, x)]
    ELSE [ok |-> FALSE, v |-> v]

\* Mutant of retain: the owner's list is written back as it was read.
retain_nothing(v, credential_id) == v

\* Mutant of retain: a match is overwritten by a tombstone and keeps its
\* slot, so the list never gets shorter.
retain_tombstone(v, credential_id) ==
  [i \in 1 .. Len(v) |-> IF v[i] = credential_id THEN 0 - 1 ELSE v[i]]

\* Mutant of retain: the first match is removed as Vec::swap_remove does, the
\* last id taking its place.
retain_swap_remove(v, credential_id) ==
  LET hits == {k \in 1 .. Len(v) : v[k] = credential_id}
  IN  IF hits = {} THEN v
      ELSE LET i == CHOOSE k \in hits : \A h \in hits : k <= h
           IN  IF i = Len(v) THEN SubSeq(v, 1, Len(v) - 1)
               ELSE SubSeq([v EXCEPT ![i] = v[Len(v)]], 1, Len(v) - 1)

\* BoundedVec::retain(|&id| id != credential_id): drops every match.
retain(v, credential_id) == SelectSeq(v, LAMBDA id : id # credential_id)

\* Mutant of deposit_event: the new event is put in front of the log.
deposit_event_front(ev, kind, credential_id, owner) ==
  <<[kind |-> kind, credential_id |-> credential_id, owner |-> owner]>> \o ev

\* Self::deposit_event
deposit_event(ev, kind, credential_id, owner) ==
  Append(ev, [kind |-> kind, credential_id |-> credential_id, owner |-> owner])

\* ------------------------------------------------------------------ storage

Storage(c, o, e) == [Credentials |-> c, OwnerCredentials |-> o, events |-> e]

\* Genesis: Credentials is empty (OptionQuery), OwnerCredentials yields the
\* empty vector for every account (ValueQuery), no event deposited.
EmptyStorage == Storage(<<>>, [a \in Accounts |-> <<>>], <<>>)

Result(st, res) == [st |-> st, res |-> res]

\* ---------------------------------------------------------------- extrinsics

\* The ids of a sequence.
Range(v) == {v[i] : i \in 1 .. Len(v)}

\* Mutant of already_exists: the duplicate check looks only at the caller's
\* own list (per-owner instead of global uniqueness).
already_exists_per_owner(st, who, credential_id) ==
  credential_id \in Range(st.OwnerCredentials[who])

\* Mutant of already_exists: a duplicate is a record that stores the same
\* bytes (the stored metadata are compared, not the key).
already_exists_by_content(st, who, credential_id) ==
  \E id \in DOMAIN st.Credentials :
    Hash(st.Credentials[id].metadata) = credential_id

\* Mutant of already_exists: the duplicate check is missing.
already_exists_unchecked(st, who, credential_id) == FALSE

\* Mutant of already_exists: an id is taken once it was ever minted (a
\* deleted record's id is never free again).
already_exists_ever_minted(st, who, credential_id) ==
  \/ contains_key(st.Credentials, credential_id)
  \/ \E i \in 1 .. Len(st.events) :
       /\ st.events[i].kind = "CredentialMinted"
       /\ st.events[i].credential_id = credential_id

\* ensure!(!Credentials::<T>::contains_key(&credential_id), CredentialAlreadyExists)
already_exists(st, who, credential_id) == contains_key(st.Credentials, credential_id)

\* Mutant of below_limit: the comparison is inclusive (off by one).
below_limit_inclusive(owner_credentials) == Len(owner_credentials) <= MintLimit

\* Mutant of below_limit: the length check before the writes is missing.
below_limit_unchecked(owner_credentials) == TRUE

\* ensure!(owner_credentials.len() < 500, TooManyCredentials)
below_limit(owner_credentials) == Len(owner_credentials) < MintLimit

\* Mutant of is_owner: the ownership check is missing.
is_owner_unchecked(owner, who) == TRUE

\* ensure!(owner == who, NotCredentialOwner)
is_owner(owner, who) == owner = who

\* Mutant of mint_credential: the capacity check comes first, before the
\* size check and the duplicate check.
mint_credential_capacity_first(st, who, metadata_json) ==
  IF ~below_limit(st.OwnerCredentials[who])
    THEN Result(st, "TooManyCredentials")
  ELSE IF ~try_into_ok(metadata_json) THEN Result(st, "MetadataTooLarge")
  ELSE IF already_exists(st, who, Hash(metadata_json))
    THEN Result(st, "CredentialAlreadyExists")
  ELSE Result(Storage(insert(st.Credentials, Hash(metadata_json),
                             [owner |-> who, metadata |-> metadata_json]),
                      [st.OwnerCredentials EXCEPT
                         ![who] = Append(st.OwnerCredentials[who],
                                         Hash(metadata_json))],
                      deposit_event(st.events, "CredentialMinted",
                                    Hash(metadata_json), who)),
              "Ok")

\* Mutant of mint_credential: no duplicate check, a second mint of the same
\* metadata overwrites the record and appends the id again.
mint_credential_overwrite(st, who, metadata_json) ==
  IF ~try_into_ok(metadata_json) THEN Result(st, "MetadataTooLarge")
  ELSE IF ~below_limit(st.OwnerCredentials[who])
    THEN Result(st, "TooManyCredentials")
  ELSE Result(Storage(insert(st.Credentials, Hash(metadata_json),
                             [owner |-> who, metadata |-> metadata_json]),
                      [st.OwnerCredentials EXCEPT
                         ![who] = Append(st.OwnerCredentials[who],
                                         Hash(metadata_json))],
                      deposit_event(st.events, "CredentialMinted",
                                    Hash(metadata_json), who)),
              "Ok")

\* mint_credential(origin = signed who, metadata_json).  The body runs as
\* written: the insert into Credentials precedes try_push, and an Err of
\* try_push returns with that insert done.
mint_credential(st, who, metadata_json) ==
  IF ~try_into_ok(metadata_json) THEN Result(st, "MetadataTooLarge")
  ELSE
    LET credential_id == Hash(metadata_json)
        owner_credentials == st.OwnerCredentials[who]
        stored == insert(st.Credentials, credential_id,
                         [owner |-> who, metadata |-> metadata_json])
        pushed == try_push(owner_credentials, credential_id)
    IN  IF already_exists(st, who, credential_id)
          THEN Result(st, "CredentialAlreadyExists")
        ELSE IF ~below_limit(owner_credentials)
          THEN Result(st, "TooManyCredentials")
        ELSE IF ~pushed.ok
          THEN Result(Storage(stored, st.OwnerCredentials, st.events),
                      "TooManyCredentials")
        ELSE Result(Storage(stored,
                            [st.OwnerCredentials EXCEPT ![who] = pushed.v],
                            deposit_event(st.events, "CredentialMinted",
                                          credential_id, who)),
                    "Ok")

\* Mutant of update_credential: the size check comes first, before the
\* lookup and the ownership check.
update_credential_size_first(st, who, credential_id, new_metadata) ==
  IF ~try_into_ok(new_metadata)
    THEN Result(st, "MetadataTooLarge")
  ELSE IF ~contains_key(st.Credentials, credential_id)
    THEN Result(st, "CredentialNotFound")
  ELSE IF ~is_owner(st.Credentials[credential_id].owner, who)
    THEN Result(st, "NotCredentialOwner")
  ELSE Result(Storage(insert(st.Credentials, credential_id,
                             [owner |-> who, metadata |-> new_metadata]),
                      st.OwnerCredentials,
                      deposit_event(st.events, "CredentialUpdated",
                                    credential_id, who)),
              "Ok")

\* Mutant of update_credential: an update of an absent id stores the record
\* with the caller as owner (insert-or-update).
update_credential_upsert(st, who, credential_id, new_metadata) ==
  IF /\ contains_key(st.Credentials, credential_id)
     /\ ~is_owner(st.Credentials[credential_id].owner, who)
    THEN Result(st, "NotCredentialOwner")
  ELSE IF ~try_into_ok(new_metadata)
    THEN Result(st, "MetadataTooLarge")
  ELSE Result(Storage(insert(st.Credentials, credential_id,
                             [owner |-> who, metadata |-> new_metadata]),
                      st.OwnerCredentials,
                      deposit_event(st.events, "CredentialUpdated",
                                    credential_id, who)),
              "Ok")

\* Mutant of update_credential: any signed caller may update, and the record
\* is written with the caller as its owner.
update_credential_by_anyone(st, who, credential_id, new_metadata) ==
  IF ~contains_key(st.Credentials, credential_id)
    THEN Result(st, "CredentialNotFound")
  ELSE IF ~try_into_ok(new_metadata)
    THEN Result(st, "MetadataTooLarge")
  ELSE Result(Storage(insert(st.Credentials, credential_id,
                             [owner |-> who, metadata |-> new_metadata]),
                      st.OwnerCredentials,
                      deposit_event(st.events, "CredentialUpdated",
                                    credential_id, who)),
              "Ok")

\* Mutant of update_credential: the record is stored under the digest of the
\* new metadata (the id is recomputed).
update_credential_rekeyed(st, who, credential_id, new_metadata) ==
  IF ~contains_key(st.Credentials, credential_id)
    THEN Result(st, "CredentialNotFound")
  ELSE IF ~is_owner(st.Credentials[credential_id].owner, who)
    THEN Result(st, "NotCredentialOwner")
  ELSE IF ~try_into_ok(new_metadata)
    THEN Result(st, "MetadataTooLarge")
  ELSE Result(Storage(insert(remove(st.Credentials, credential_id),
                             Hash(new_metadata),
                             [owner |-> who, metadata |-> new_metadata]),
                      st.OwnerCredentials,
                      deposit_event(st.events, "CredentialUpdated",
                                    credential_id, who)),
              "Ok")

\* update_credential(origin = signed who, credential_id, new_metadata)
update_credential(st, who, credential_id, new_metadata) ==
  IF ~contains_key(st.Credentials, credential_id)
    THEN Result(st, "CredentialNotFound")
  ELSE IF ~is_owner(st.Credentials[credential_id].owner, who)
    THEN Result(st, "NotCredentialOwner")
  ELSE IF ~try_into_ok(new_metadata)
    THEN Result(st, "MetadataTooLarge")
  ELSE Result(Storage(insert(st.Credentials, credential_id,
                             [owner |-> who, metadata |-> new_metadata]),
                      st.OwnerCredentials,
                      deposit_event(st.events, "CredentialUpdated",
                                    credential_id, who)),
              "Ok")

\* Mutant of delete_credential: deleting an absent credential succeeds.
delete_credential_idempotent(st, who, credential_id) ==
  IF ~contains_key(st.Credentials, credential_id)
    THEN Result(Storage(st.Credentials, st.OwnerCredentials,
                        deposit_event(st.events, "CredentialDeleted",
                                      credential_id, who)),
                "Ok")
  ELSE IF ~is_owner(st.Credentials[credential_id].owner, who)
    THEN Result(st, "NotCredentialOwner")
  ELSE Result(Storage(remove(st.Credentials, credential_id),
                      [st.OwnerCredentials EXCEPT
                         ![who] = retain(st.OwnerCredentials[who], credential_id)],
                      deposit_event(st.events, "CredentialDeleted",
                                    credential_id, who)),
              "Ok")

\* Mutant of delete_credential: the record is removed before the ownership
\* check, so a rejected call returns with the removal done.
delete_credential_remove_first(st, who, credential_id) ==
  IF ~contains_key(st.Credentials, credential_id)
    THEN Result(st, "CredentialNotFound")
  ELSE IF ~is_owner(st.Credentials[credential_id].owner, who)
    THEN Result(Storage(remove(st.Credentials, credential_id),
                        st.OwnerCredentials, st.events),
                "NotCredentialOwner")
  ELSE Result(Storage(remove(st.Credentials, credential_id),
                      [st.OwnerCredentials EXCEPT
                         ![who] = retain(st.OwnerCredentials[who], credential_id)],
                      deposit_event(st.events, "CredentialDeleted",
                                    credential_id, who)),
              "Ok")

\* Mutant of delete_credential: the record is removed and the owner's list
\* is left as it was.
delete_credential_keep_index(st, who, credential_id) ==
  IF ~contains_key(st.Credentials, credential_id)
    THEN Result(st, "CredentialNotFound")
  ELSE IF ~is_owner(st.Credentials[credential_id].owner, who)
    THEN Result(st, "NotCredentialOwner")
  ELSE Result(Storage(remove(st.Credentials, credential_id),
                      st.OwnerCredentials,
                      deposit_event(st.events, "CredentialDeleted",
                                    credential_id, who)),
              "Ok")

\* delete_credential(origin = signed who, credential_id)
delete_credential(st, who, credential_id) ==
  IF ~contains_key(st.Credentials, credential_id)
    THEN Result(st, "CredentialNotFound")
  ELSE IF ~is_owner(st.Credentials[credential_id].owner, who)
    THEN Result(st, "NotCredentialOwner")
  ELSE Result(Storage(remove(st.Credentials, credential_id),
                      [st.OwnerCredentials EXCEPT
                         ![who] = retain(st.OwnerCredentials[who], credential_id)],
                      deposit_event(st.events, "CredentialDeleted",
                                    credential_id, who)),
              "Ok")

\* ------------------------------------------------------------------ queries

\* Option<T>: None, or Some of a value.
None == <<>>

Some(x) == <<x>>

\* get_credentials_by_owner(owner): filter_map over the owner's list; an id
\* whose record is missing is skipped, the others yield (id, metadata).
get_credentials_by_owner(st, owner) ==
  LET credential_ids == st.OwnerCredentials[owner]
      found == SelectSeq(credential_ids,
                         LAMBDA id : contains_key(st.Credentials, id))
  IN  [i \in 1 .. Len(found) |-> <<found[i], st.Credentials[found[i]].metadata>>]

\* credential_exists(credential_id)
credential_exists(st, credential_id) == contains_key(st.Credentials, credential_id)

\* get_credential_owner(credential_id)
get_credential_owner(st, credential_id) ==
  IF contains_key(st.Credentials, credential_id)
    THEN Some(st.Credentials[credential_id].owner)
    ELSE None

\* ------------------------------------------------------------ state machine

VARIABLES
  Credentials,       \* credential id -> [owner, metadata]
  OwnerCredentials,  \* account -> sequence of credential ids
  events,            \* the deposited events, oldest first
  last,              \* the last call dispatched and its result
  calls              \* successful calls dispatched since the initial state

vars == <<Credentials, OwnerCredentials, events, last, calls>>

store == <<Credentials, OwnerCredentials, events>>

Cur == Storage(Credentials, OwnerCredentials, events)

\* The credential ids the update calls are tried with: the digest of every
\* metadata that fits, present in storage or not.
CallIds == {Hash(m) : m \in {x \in Metadata : try_into_ok(x)}}

\* The oldest credential id of every account that holds one.
OldestIds ==
  {OwnerCredentials[a][1] : a \in {x \in Accounts : OwnerCredentials[x] # <<>>}}

\* The credential ids the delete calls are tried with: those of the update
\* calls and the head of every account's list, so that an id is also removed
\* from in front of the ids minted after it.
DeleteIds == CallIds \cup OldestIds

NoCall == [op |-> "none", who |-> 0, id |-> NoId, md |-> NoMetadata, res |-> "none"]

\* The credential id a mint call computes: none when the metadata does not fit.
HashOf(md) == IF try_into_ok(md) THEN Hash(md) ELSE NoId

\* The record of a dispatched call.
Called(op, who, id, md, res) == [op |-> op, who |-> who, id |-> id, md |-> md, res |-> res]

\* A successful call is dispatched only while the run has budget left; a
\* rejected call is always dispatched.
Affordable(r) == r.res = "Ok" => calls < MaxCalls

Spent(r) == IF r.res = "Ok" THEN calls + 1 ELSE calls

Mint ==
  \E who \in Accounts, metadata_json \in Metadata :
    \E r \in {mint_credential(Cur, who, metadata_json)} :
        /\ Affordable(r)
        /\ Credentials' = r.st.Credentials
        /\ OwnerCredentials' = r.st.OwnerCredentials
        /\ events' = r.st.events
        /\ last' = Called("mint", who, HashOf(metadata_json), metadata_json, r.res)
        /\ calls' = Spent(r)

Update ==
  \E who \in Accounts, credential_id \in CallIds, new_metadata \in Metadata :
    \E r \in {update_credential(Cur, who, credential_id, new_metadata)} :
        /\ Affordable(r)
        /\ Credentials' = r.st.Credentials
        /\ OwnerCredentials' = r.st.OwnerCredentials
        /\ events' = r.st.events
        /\ last' = Called("update", who, credential_id, new_metadata, r.res)
        /\ calls' = Spent(r)

Delete ==
  \E who \in Accounts, credential_id \in DeleteIds :
    \E r \in {delete_credential(Cur, who, credential_id)} :
        /\ Affordable(r)
        /\ Credentials' = r.st.Credentials
        /\ OwnerCredentials' = r.st.OwnerCredentials
        /\ events' = r.st.events
        /\ last' = Called("delete", who, credential_id, NoMetadata, r.res)
        /\ calls' = Spent(r)

\* The state after construction: empty storage, nothing dispatched.
Init ==
  /\ Credentials = EmptyStorage.Credentials
  /\ OwnerCredentials = EmptyStorage.OwnerCredentials
  /\ events = EmptyStorage.events
  /\ last = NoCall
  /\ calls = 0

Next == Mint \/ Update \/ Delete

Spec == Init /\ [][Next]_vars

\* Runs explored up to and including their first rejected call: a call is
\* dispatched only while no call has been rejected.
NoRejection == last.res \in {"none", "Ok"}

MintRun == NoRejection /\ Mint

UpdateRun == NoRejection /\ Update

DeleteRun == NoRejection /\ Delete

NextRun == MintRun \/ UpdateRun \/ DeleteRun

SpecRun == Init /\ [][NextRun]_vars

\* ------------------------------------------------- a nearly full account

\* The account that holds the bulk credentials, and the metadata of the
\* n-th of them (as the loop of test_maximum_credential_limit mints them).
BulkOwner == CHOOSE a \in Accounts : \A b \in Accounts : a <= b

BulkMetadata(n) == [len |-> 2, body |-> n]

\* The storage after BulkOwner minted BulkMetadata(lo) .. BulkMetadata(hi)
\* into st, in that order, computed with mint_credential itself.  As in the
\* test's loop (assert_ok! on every mint) the run goes on only while every
\* mint so far succeeded.
RECURSIVE MintRange(_, _, _)
MintRange(st, lo, hi) ==
  IF Len(st.OwnerCredentials[BulkOwner]) # lo - 1 \/ lo > hi THEN st
  ELSE IF lo = hi THEN mint_credential(st, BulkOwner, BulkMetadata(lo)).st
  ELSE LET mid == (lo + hi) \div 2
       IN  MintRange(MintRange(st, lo, mid), mid + 1, hi)

Filled(n) == MintRange(EmptyStorage, 1, n)

\* One account is one credential short of the limit (the state
\* test_boundary_conditions_499_500_501 builds).  The bulk mints were
\* dispatched in earlier blocks: the event log of the current block is empty.
InitCap ==
  LET st == Filled(MintLimit - 1)
  IN  /\ Credentials = st.Credentials
      /\ OwnerCredentials = st.OwnerCredentials
      /\ events = <<>>
      /\ last = NoCall
      /\ calls = 0

SpecCap == InitCap /\ [][NextRun]_vars

\* ------------------------------------------------------------------ claims

Rejected(call) == call.res \notin {"none", "Ok"}

\* The ids some account's list holds.
IndexedIds == UNION {Range(OwnerCredentials[a]) : a \in Accounts}

\* C1: index/store bijection.  In every reachable state, for every owner O
\* and every credential id, the id is in OwnerCredentials[O] if and only if
\* Credentials[id] exists and its owner is O.
C1_IndexStoreBijection ==
  \A o \in Accounts : \A id \in (DOMAIN Credentials) \cup IndexedIds :
    (id \in Range(OwnerCredentials[o]))
      <=> (id \in DOMAIN Credentials /\ Credentials[id].owner = o)

\* A delete succeeded, the deleting owner's list is empty again and another
\* owner still holds a record.
C1_Witness ==
  /\ last.op = "delete" /\ last.res = "Ok"
  /\ OwnerCredentials[last.who] = <<>>
  /\ \E o \in Accounts : o # last.who /\ OwnerCredentials[o] # <<>>

\* C2: every rejected call leaves state unchanged.  Whenever a call returns
\* an error, Credentials, OwnerCredentials and the event log are what they
\* were before the call.
C2_RejectedCallLeavesStateUnchanged ==
  [][Rejected(last') => UNCHANGED store]_vars

\* A mint was rejected for capacity, after other calls succeeded.
C2_Witness ==
  /\ last.op = "mint" /\ last.res = "TooManyCredentials"
  /\ calls > 0

\* Position of a CredentialMinted event for id in ev after which ev holds no
\* CredentialDeleted event for id: the record minted there is still live.
MintedAndLive(ev, id) ==
  \E i \in 1 .. Len(ev) :
    /\ ev[i].kind = "CredentialMinted" /\ ev[i].credential_id = id
    /\ \A j \in (i + 1) .. Len(ev) :
         ~(ev[j].kind = "CredentialDeleted" /\ ev[j].credential_id = id)

\* C3: global duplicate suppression.  After a successful mint of a metadata
\* P (of at most 4096 bytes) by any account, and with no delete of that
\* record since, a mint of P by any account fails with
\* CredentialAlreadyExists and changes nothing.
C3_DuplicateMintRejected ==
  [][(/\ last'.op = "mint"
      /\ last'.md.len <= MaxMetadataLen
      /\ MintedAndLive(events, last'.id))
       => (last'.res = "CredentialAlreadyExists" /\ UNCHANGED store)]_vars

\* A second mint of the same metadata by another account was rejected, the
\* record having been updated in between.
C3_Witness ==
  /\ last.op = "mint" /\ last.res = "CredentialAlreadyExists"
  /\ Credentials[last.id].owner # last.who
  /\ Credentials[last.id].metadata # last.md

\* The caller of the call dispatched in this step is the owner of the
\* existing record the call names.
ByOwner(call) ==
  call.id \in DOMAIN Credentials /\ Credentials[call.id].owner = call.who

\* The call dispatched in this step is a mint of a metadata that fits, whose
\* id holds no record.
FreshMint(call) ==
  /\ call.op = "mint"
  /\ call.md.len <= MaxMetadataLen
  /\ call.id \notin DOMAIN Credentials

\* C4: capacity boundary.  An owner whose list holds fewer than 500 ids can
\* mint a fresh metadata; a mint (valid, not a duplicate) by an owner whose
\* list holds 500 ids fails with TooManyCredentials, leaves the list at 500
\* and leaves no Credentials entry for the attempted id.
C4_CapacityBoundary ==
  [][FreshMint(last') =>
       /\ Len(OwnerCredentials[last'.who]) < MaxOwnerCredentials
            => last'.res = "Ok"
       /\ Len(OwnerCredentials[last'.who]) = MaxOwnerCredentials
            => /\ last'.res = "TooManyCredentials"
               /\ Len(OwnerCredentials'[last'.who]) = MaxOwnerCredentials
               /\ last'.id \notin DOMAIN Credentials']_vars

\* The 501st mint of an owner was rejected right after the 500th succeeded.
C4_Witness ==
  /\ last.op = "mint" /\ last.res = "TooManyCredentials"
  /\ Len(OwnerCredentials[last.who]) = MaxOwnerCredentials
  /\ last.id \notin DOMAIN Credentials
  /\ events[Len(events)] = [kind |-> "CredentialMinted",
                            credential_id |-> OwnerCredentials[last.who][MaxOwnerCredentials],
                            owner |-> last.who]

\* C5: ownership gate.  For every existing record owned by A, an update
\* (with any metadata) or a delete by a caller other than A fails with
\* NotCredentialOwner, and both maps and the event log are unchanged.
C5_OwnershipGate ==
  [][(/\ last'.op \in {"update", "delete"}
      /\ last'.id \in DOMAIN Credentials
      /\ Credentials[last'.id].owner # last'.who)
       => (last'.res = "NotCredentialOwner" /\ UNCHANGED store)]_vars

\* An update with an oversized metadata by a caller who is not the owner was
\* rejected for ownership.
C5_Witness ==
  /\ last.op = "update" /\ last.res = "NotCredentialOwner"
  /\ last.md.len > MaxMetadataLen
  /\ Credentials[last.id].owner # last.who

C7_SoulboundOwnership ==
  [][/\ (last'.op = "mint" /\ last'.res = "Ok")
          => (/\ last'.id \notin DOMAIN Credentials
              /\ last'.id \in DOMAIN Credentials'
              /\ Credentials'[last'.id].owner = last'.who)
     /\ \A id \in (DOMAIN Credentials) \cap (DOMAIN Credentials') :
          Credentials'[id].owner = Credentials[id].owner]_vars

\* A record minted and then updated by its owner survived a delete attempt
\* by another caller and still has its minter as owner.
C7_Witness ==
  /\ last.op = "delete" /\ last.res = "NotCredentialOwner"
  /\ \E i, j \in 1 .. Len(events) :
       /\ i < j
       /\ events[i].kind = "CredentialMinted"
       /\ events[j].kind = "CredentialUpdated"
       /\ events[i].credential_id = last.id
       /\ events[j].credential_id = last.id
       /\ Credentials[last.id].owner = events[i].owner

\* C8: unknown id.  An update or a delete, by any caller, of a credential
\* id that is not in Credentials fails with CredentialNotFound and leaves
\* state unchanged.
C8_UnknownId ==
  [][(last'.op \in {"update", "delete"} /\ last'.id \notin DOMAIN Credentials)
       => (last'.res = "CredentialNotFound" /\ UNCHANGED store)]_vars

\* An update of an id whose record was deleted before was rejected.
C8_Witness ==
  /\ last.op = "update" /\ last.res = "CredentialNotFound"
  /\ \E i \in 1 .. Len(events) :
       events[i].kind = "CredentialDeleted" /\ events[i].credential_id = last.id

\* C9: effect of a successful mint.  When the metadata fits, no record has
\* the id Hash(metadata) and the caller's list holds fewer than 500 ids, the
\* mint succeeds; afterwards Credentials[Hash(metadata)] = (caller,
\* metadata), the id is the last element of the caller's list with the
\* previous elements kept in order, and every other record and every other
\* owner's list is unchanged.
C9_MintEffect ==
  [][(/\ last'.op = "mint"
      /\ last'.md.len <= MaxMetadataLen
      /\ Hash(last'.md) \notin DOMAIN Credentials
      /\ Len(OwnerCredentials[last'.who]) < MaxOwnerCredentials)
       => /\ last'.res = "Ok"
          /\ DOMAIN Credentials' = (DOMAIN Credentials) \cup {Hash(last'.md)}
          /\ Credentials'[Hash(last'.md)] = [owner |-> last'.who, metadata |-> last'.md]
          /\ \A id \in DOMAIN Credentials : Credentials'[id] = Credentials[id]
          /\ OwnerCredentials'[last'.who]
               = OwnerCredentials[last'.who] \o <<Hash(last'.md)>>
          /\ \A o \in Accounts \ {last'.who} :
               OwnerCredentials'[o] = OwnerCredentials[o]]_vars

\* A mint took an owner's list from 499 to 500 ids while another owner holds
\* a record.
C9_Witness ==
  /\ last.op = "mint" /\ last.res = "Ok"
  /\ Len(OwnerCredentials[last.who]) = MaxOwnerCredentials
  /\ OwnerCredentials[last.who][MaxOwnerCredentials] = Hash(last.md)
  /\ \E o \in Accounts : o # last.who /\ OwnerCredentials[o] # <<>>

\* C10: effect of a successful update.  After a successful update of id
\* with new_metadata, Credentials[id] = (same owner, new_metadata); the id
\* is not recomputed, every other record is unchanged, and every owner's
\* list (the position of id in its owner's list included) is unchanged.
C10_UpdateEffect ==
  [][(last'.op = "update" /\ last'.res = "Ok")
       => /\ DOMAIN Credentials' = DOMAIN Credentials
          /\ last'.id \in DOMAIN Credentials
          /\ Credentials'[last'.id]
               = [owner |-> Credentials[last'.id].owner, metadata |-> last'.md]
          /\ \A id \in (DOMAIN Credentials) \ {last'.id} :
               Credentials'[id] = Credentials[id]
          /\ OwnerCredentials' = OwnerCredentials]_vars

\* An update replaced a record's metadata by one whose digest is not the
\* record's id, while a second record exists.
C10_Witness ==
  /\ last.op = "update" /\ last.res = "Ok"
  /\ Hash(last.md) # last.id
  /\ Credentials[last.id].metadata = last.md
  /\ \E id \in DOMAIN Credentials : id # last.id

\* The storage after the step.
After == Storage(Credentials', OwnerCredentials', events')

\* C11: effect of a successful delete.  After a successful delete of id by
\* its owner, id is absent from Credentials (credential_exists is false,
\* get_credential_owner is None) and from the owner's list, the remaining
\* ids of that list keep their relative order, and every other record and
\* every other owner's list is unchanged.
C11_DeleteEffect ==
  [][(last'.op = "delete" /\ last'.res = "Ok")
       => /\ ~credential_exists(After, last'.id)
          /\ get_credential_owner(After, last'.id) = None
          /\ last'.id \notin Range(OwnerCredentials'[last'.who])
          /\ \E i \in {k \in 1 .. Len(OwnerCredentials[last'.who]) :
                          OwnerCredentials[last'.who][k] = last'.id} :
               OwnerCredentials'[last'.who]
                 = SubSeq(OwnerCredentials[last'.who], 1, i - 1)
                     \o SubSeq(OwnerCredentials[last'.who], i + 1,
                                Len(OwnerCredentials[last'.who]))
          /\ DOMAIN Credentials' = (DOMAIN Credentials) \ {last'.id}
          /\ \A id \in DOMAIN Credentials' : Credentials'[id] = Credentials[id]
          /\ \A o \in Accounts \ {last'.who} :
               OwnerCredentials'[o] = OwnerCredentials[o]]_vars

\* The oldest of several hundred ids of an owner was deleted, the ids minted
\* after it remain, and another owner holds a record.
C11_Witness ==
  /\ last.op = "delete" /\ last.res = "Ok"
  /\ last.id = Hash(BulkMetadata(1))
  /\ Len(OwnerCredentials[last.who]) >= MaxOwnerCredentials - 2
  /\ OwnerCredentials[last.who][1] = Hash(BulkMetadata(2))
  /\ \E o \in Accounts : o # last.who /\ OwnerCredentials[o] # <<>>

\* The records of Credentials whose id is not in their owner's list.
Orphans(st) ==
  LET indexed == [o \in Accounts |-> Range(st.OwnerCredentials[o])]
  IN  {id \in DOMAIN st.Credentials : id \notin indexed[st.Credentials[id].owner]}

\* C12: mint is all-or-nothing across the two maps.  A mint that writes
\* Credentials also appends the id to the caller's list and succeeds (the
\* push after the insert does not fail), and after any mint that returns
\* TooManyCredentials both maps are as before the call and no record of
\* Credentials lacks its entry in its owner's list.
C12_MintAllOrNothing ==
  [][(last'.op = "mint")
       => /\ (Credentials' # Credentials)
               => /\ last'.res = "Ok"
                  /\ OwnerCredentials'[last'.who]
                       = Append(OwnerCredentials[last'.who], last'.id)
          /\ (last'.res = "TooManyCredentials")
               => /\ UNCHANGED <<Credentials, OwnerCredentials>>
                  /\ Orphans(After) = {}]_vars

\* A mint of a metadata of the largest size by the owner of 500 ids was
\* rejected for capacity, and Credentials holds those 500 records only.
C12_Witness ==
  /\ last.op = "mint" /\ last.res = "TooManyCredentials"
  /\ last.md.len = MaxMetadataLen
  /\ Len(OwnerCredentials[last.who]) = MaxOwnerCredentials
  /\ DOMAIN Credentials = Range(OwnerCredentials[last.who])

\* The record id was minted and then deleted, and not minted again since:
\* the latest CredentialMinted or CredentialDeleted event for id in ev is a
\* CredentialDeleted one, with a CredentialMinted one before it.
MintedThenDeleted(ev, id) ==
  \E i, j \in 1 .. Len(ev) :
    /\ i < j
    /\ ev[i].kind = "CredentialMinted" /\ ev[i].credential_id = id
    /\ ev[j].kind = "CredentialDeleted" /\ ev[j].credential_id = id
    /\ \A k \in (j + 1) .. Len(ev) :
         ~(ev[k].kind = "CredentialMinted" /\ ev[k].credential_id = id)

\* C13: re-creation after deletion.  After a mint of P and a delete of
\* Hash(P) succeeded, a later mint of P by any caller B (the first minter or
\* not) whose list holds fewer than 500 ids succeeds, stores the record under
\* the same id Hash(P) with owner B, and the id is in B's list only.
C13_MintAfterDelete ==
  [][(/\ last'.op = "mint"
      /\ last'.md.len <= MaxMetadataLen
      /\ MintedThenDeleted(events, Hash(last'.md))
      /\ Len(OwnerCredentials[last'.who]) < MaxOwnerCredentials)
       => /\ last'.res = "Ok"
          /\ events' = Append(events, [kind |-> "CredentialMinted",
                                       credential_id |-> Hash(last'.md),
                                       owner |-> last'.who])
          /\ get_credential_owner(After, Hash(last'.md)) = Some(last'.who)
          /\ After.Credentials[Hash(last'.md)].metadata = last'.md
          /\ \A o \in Accounts :
               (Hash(last'.md) \in Range(OwnerCredentials'[o])) <=> (o = last'.who)]_vars

\* A record minted and deleted by one account was minted again, under the
\* same id, by another account.
C13_Witness ==
  /\ last.op = "mint" /\ last.res = "Ok"
  /\ Len(events) = 3
  /\ events[1].kind = "CredentialMinted"
  /\ events[2] = [events[1] EXCEPT !.kind = "CredentialDeleted"]
  /\ events[3] = [events[1] EXCEPT !.owner = last.who]
  /\ events[1].owner # last.who
  /\ OwnerCredentials[events[1].owner] = <<>>
  /\ OwnerCredentials[last.who] = <<events[1].credential_id>>

\* The event kind of an extrinsic.
KindOf(op) ==
  CASE op = "mint" -> "CredentialMinted"
    [] op = "update" -> "CredentialUpdated"
    [] op = "delete" -> "CredentialDeleted"

\* The owner of the record a successful call is about: read after the call
\* for a mint or an update, before it for a delete.
RecordOwner(call) ==
  IF call.op = "delete" THEN Credentials[call.id].owner
  ELSE Credentials'[call.id].owner

\* C15: events mirror successful operations.  Every successful mint, update
\* and delete appends exactly one event of the matching kind that carries
\* the record id and the record's owner, a rejected call appends none, and
\* so the log holds one event per successful call, in call order.
C15_EventsMirrorCalls ==
  [][/\ (last'.res = "Ok")
          => events' = Append(events, [kind |-> KindOf(last'.op),
                                       credential_id |-> last'.id,
                                       owner |-> RecordOwner(last')])
     /\ Rejected(last') => events' = events
     /\ Len(events') = calls']_vars

\* A record was minted, updated and deleted, and the log holds the three
\* events in that order.
C15_Witness ==
  /\ last.op = "delete" /\ last.res = "Ok"
  /\ Len(events) = 3
  /\ events[1].kind = "CredentialMinted"
  /\ events[2].kind = "CredentialUpdated"
  /\ events[3].kind = "CredentialDeleted"
  /\ \A i \in 1 .. 3 :
       events[i].credential_id = last.id /\ events[i].owner = last.who

\* The accounts no event of the log names.
NeverReferenced == {o \in Accounts : \A i \in 1 .. Len(events) : events[i].owner # o}

\* C16: get_credentials_by_owner skips nothing in a reachable state.  For
\* every owner the result has the length of the owner's list and its i-th
\* entry is (the i-th id of the list, the metadata now stored for that id);
\* for an owner never referenced the result is empty.
C16_ListByOwnerComplete ==
  \A o \in Accounts :
    LET listed == get_credentials_by_owner(Cur, o)
        ids == OwnerCredentials[o]
    IN  /\ Len(listed) = Len(ids)
        /\ \A i \in 1 .. Len(ids) :
             /\ ids[i] \in DOMAIN Credentials
             /\ listed[i] = <<ids[i], Credentials[ids[i]].metadata>>
        /\ (o \in NeverReferenced) => listed = <<>>

\* An owner lists two records, one of them with a metadata stored by an
\* update, and another account, never referenced, lists none.
C16_Witness ==
  \E o \in Accounts :
    LET listed == get_credentials_by_owner(Cur, o)
    IN  /\ Len(listed) = 2
        /\ \E i \in 1 .. 2 : Hash(listed[i][2]) # listed[i][1]
        /\ \E n \in NeverReferenced : get_credentials_by_owner(Cur, n) = <<>>

\* C17: stored-value bounds.  In every reachable state every metadata stored
\* in Credentials has at most 4096 bytes and every list of OwnerCredentials
\* has at most 500 ids.
C17_StoredValueBounds ==
  /\ \A id \in DOMAIN Credentials : Credentials[id].metadata.len <= MaxMetadataLen
  /\ \A o \in Accounts : Len(OwnerCredentials[o]) <= MaxOwnerCredentials

\* A list holds 500 ids and the record of its last id a metadata of 4096
\* bytes, both bounds being met at once.
C17_Witness ==
  \E o \in Accounts :
    /\ Len(OwnerCredentials[o]) = MaxOwnerCredentials
    /\ Credentials[OwnerCredentials[o][MaxOwnerCredentials]].metadata.len = MaxMetadataLen

Event(kind, id, owner) == [kind |-> kind, credential_id |-> id, owner |-> owner]

\* C18: the scenario, from the empty storage, for all callers A # B and all
\* fitting metadata P1 # P2, with H1 = Hash(P1).  Each conjunct is one call of
\* the scenario dispatched right after the call before it (recorded in last,
\* with the log of the successful calls so far): mint(A, P1) succeeds with id
\* H1; mint(A, P1) again fails with CredentialAlreadyExists; update(A, H1, P2)
\* succeeds and P2 is stored at H1; delete(B, H1) fails with
\* NotCredentialOwner; delete(A, H1) succeeds, after which
\* credential_exists(H1) is false and get_credentials_by_owner(A) is empty.
C18_Scenario ==
  [][/\ (/\ calls = 0 /\ last'.op = "mint" /\ try_into_ok(last'.md)
          /\ Cur = EmptyStorage)
           => /\ last'.res = "Ok"
              /\ last'.id = Hash(last'.md)
              /\ credential_exists(After, Hash(last'.md))
     /\ (/\ calls = 1 /\ last'.op = "mint"
          /\ last.op = "mint" /\ last.res = "Ok"
          /\ last'.who = last.who /\ last'.md = last.md)
           => last'.res = "CredentialAlreadyExists"
     /\ (/\ calls = 1 /\ last'.op = "update"
          /\ last.op = "mint" /\ last.res = "CredentialAlreadyExists"
          /\ events = <<Event("CredentialMinted", last.id, last.who)>>
          /\ last'.who = last.who /\ last'.id = last.id
          /\ try_into_ok(last'.md) /\ last'.md # last.md)
           => /\ last'.res = "Ok"
              /\ credential_exists(After, last.id)
              /\ After.Credentials[last.id].metadata = last'.md
     /\ (/\ calls = 2 /\ last'.op = "delete"
          /\ last.op = "update" /\ last.res = "Ok"
          /\ events = <<Event("CredentialMinted", last.id, last.who),
                        Event("CredentialUpdated", last.id, last.who)>>
          /\ last'.id = last.id /\ last'.who # last.who)
           => last'.res = "NotCredentialOwner"
     /\ (/\ calls = 2 /\ last'.op = "delete"
          /\ last.op = "delete" /\ last.res = "NotCredentialOwner"
          /\ events = <<Event("CredentialMinted", last.id, last'.who),
                        Event("CredentialUpdated", last.id, last'.who)>>
          /\ last'.id = last.id)
           => /\ last'.res = "Ok"
              /\ ~credential_exists(After, last.id)
              /\ get_credentials_by_owner(After, last'.who) = <<>>]_vars

\* The scenario ran to its end: the record minted by A with P1 was updated
\* and then deleted by A, and neither the record nor a list entry is left.
C18_Witness ==
  \E A \in Accounts : \E P1 \in Metadata :
    /\ last = Called("delete", A, Hash(P1), NoMetadata, "Ok")
    /\ events = <<Event("CredentialMinted", Hash(P1), A),
                  Event("CredentialUpdated", Hash(P1), A),
                  Event("CredentialDeleted", Hash(P1), A)>>
    /\ ~credential_exists(Cur, Hash(P1))
    /\ get_credentials_by_owner(Cur, A) = <<>>

\* C19: per-record lifecycle.  An id absent from Credentials stays absent
\* under every call but a successful mint of a metadata that hashes to it,
\* and an id present in Credentials stays present under every call but a
\* successful delete of that id by its owner.
C19_RecordLifecycle ==
  [][\A id \in (DOMAIN Credentials) \cup (DOMAIN Credentials') :
       /\ (id \notin DOMAIN Credentials)
            => /\ last'.op = "mint" /\ last'.res = "Ok"
               /\ Hash(last'.md) = id
       /\ (id \notin DOMAIN Credentials')
            => /\ last'.op = "delete" /\ last'.res = "Ok"
               /\ last'.id = id
               /\ last'.who = Credentials[id].owner]_vars

\* A delete removed one record of an owner and left the owner's other
\* record in place.
C19_Witness ==
  /\ last.op = "delete" /\ last.res = "Ok"
  /\ ~credential_exists(Cur, last.id)
  /\ \E id \in DOMAIN Credentials : Credentials[id].owner = last.who

\* v without its first entry equal to id (v itself when there is none).
RemoveFirst(v, id) ==
  LET hits == {k \in 1 .. Len(v) : v[k] = id}
  IN  IF hits = {} THEN v
      ELSE LET i == CHOOSE k \in hits : \A h \in hits : k <= h
           IN  SubSeq(v, 1, i - 1) \o SubSeq(v, i + 1, Len(v))

\* No id is twice in one list, and no id is in the lists of two owners.
NoDuplicateIds ==
  \A o \in Accounts :
    LET ids == Range(OwnerCredentials[o])
    IN  /\ Cardinality(ids) = Len(OwnerCredentials[o])
        /\ \A o2 \in {x \in Accounts : x > o} :
             \A i \in 1 .. Len(OwnerCredentials[o2]) :
               OwnerCredentials[o2][i] \notin ids

\* C20: no id occurs twice in OwnerCredentials.  In every reachable state an
\* id is at most once in one owner's list and in no other owner's list; so a
\* successful delete, done with retain, shortens the owner's list by exactly
\* one and leaves what removing the first match leaves.
C20_NoDuplicateIds ==
  /\ []NoDuplicateIds
  /\ [][(last'.op = "delete" /\ last'.res = "Ok")
          => /\ Len(OwnerCredentials'[last'.who])
                  = Len(OwnerCredentials[last'.who]) - 1
             /\ OwnerCredentials'[last'.who]
                  = RemoveFirst(OwnerCredentials[last'.who], last'.id)]_vars

\* The oldest id of a list of 500 was deleted: 499 ids are left, the id
\* minted last still at the end.
C20_Witness ==
  /\ last.op = "delete" /\ last.res = "Ok"
  /\ last.id = Hash(BulkMetadata(1))
  /\ Len(OwnerCredentials[last.who]) = MaxOwnerCredentials - 1
  /\ OwnerCredentials[last.who][MaxOwnerCredentials - 1] \in CallIds

\* C21: error precedence in mint.  The checks run in the order size,
\* duplicate, capacity: a metadata of more than 4096 bytes yields
\* MetadataTooLarge and a metadata whose id exists yields
\* CredentialAlreadyExists, both also when the caller's list holds 500 ids;
\* TooManyCredentials is returned only for a fitting metadata with a free id.
C21_MintErrorPrecedence ==
  [][(last'.op = "mint")
       => /\ (last'.md.len > MaxMetadataLen)
               => last'.res = "MetadataTooLarge"
          /\ (/\ last'.md.len <= MaxMetadataLen
              /\ Hash(last'.md) \in DOMAIN Credentials)
               => last'.res = "CredentialAlreadyExists"
          /\ (last'.res = "TooManyCredentials")
               => /\ last'.md.len <= MaxMetadataLen
                  /\ Hash(last'.md) \notin DOMAIN Credentials
                  /\ Len(OwnerCredentials[last'.who]) = MaxOwnerCredentials]_vars

\* The owner of 500 ids minted a metadata whose id exists and was told so,
\* not that the list is full.
C21_Witness ==
  /\ last.op = "mint" /\ last.res = "CredentialAlreadyExists"
  /\ Len(OwnerCredentials[last.who]) = MaxOwnerCredentials
  /\ credential_exists(Cur, last.id)

\* C22: error precedence in update.  The checks run in the order lookup,
\* ownership, size: an update with a metadata of more than 4096 bytes yields
\* CredentialNotFound for an absent id and NotCredentialOwner for a record
\* of another account; MetadataTooLarge is returned only to the owner of an
\* existing record.
C22_UpdateErrorPrecedence ==
  [][(last'.op = "update")
       => /\ (/\ last'.md.len > MaxMetadataLen
              /\ ~credential_exists(Cur, last'.id))
               => last'.res = "CredentialNotFound"
          /\ (/\ last'.md.len > MaxMetadataLen
              /\ credential_exists(Cur, last'.id)
              /\ get_credential_owner(Cur, last'.id) # Some(last'.who))
               => last'.res = "NotCredentialOwner"
          /\ (last'.res = "MetadataTooLarge")
               => /\ get_credential_owner(Cur, last'.id) = Some(last'.who)
                  /\ last'.md.len > MaxMetadataLen]_vars

\* An update with an oversized metadata named an absent id, while the
\* caller owns another record, and was rejected for the id.
C22_Witness ==
  /\ last.op = "update" /\ last.res = "CredentialNotFound"
  /\ last.md.len > MaxMetadataLen
  /\ OwnerCredentials[last.who] # <<>>

\* The ids of the records of st that store the metadata md.
Holders(st, md) == {id \in DOMAIN st.Credentials : st.Credentials[id].metadata = md}

\* C23: the duplicate check of mint looks at the key only.  A mint of a
\* fitting metadata whose id is free succeeds although a record (updated to
\* it) already stores the same metadata, and two records then store it; a
\* mint of a metadata whose id is taken fails with CredentialAlreadyExists
\* although no record stores that metadata any more.
C23_DuplicateByKeyOnly ==
  [][(last'.op = "mint" /\ last'.md.len <= MaxMetadataLen)
       => /\ (/\ ~credential_exists(Cur, Hash(last'.md))
              /\ Holders(Cur, last'.md) # {}
              /\ Len(OwnerCredentials[last'.who]) < MaxOwnerCredentials)
               => /\ last'.res = "Ok"
                  /\ Holders(After, last'.md)
                       = Holders(Cur, last'.md) \cup {Hash(last'.md)}
          /\ (/\ credential_exists(Cur, Hash(last'.md))
              /\ Holders(Cur, last'.md) = {})
               => (last'.res = "CredentialAlreadyExists" /\ UNCHANGED store)]_vars

\* A record was updated to the metadata P2 and another account then minted
\* P2: two records, of two owners, store the same metadata.
C23_Witness ==
  /\ last.op = "mint" /\ last.res = "Ok"
  /\ Cardinality(Holders(Cur, last.md)) = 2
  /\ \E id \in Holders(Cur, last.md) : Credentials[id].owner # last.who

\* C24: capacity counts live records.  An owner who deleted a record, the
\* owner whose list held 500 ids included, mints a fresh metadata
\* successfully right after, the list growing by one to at most 500; when
\* that brought the list back to 500, the next mint of a fresh metadata by
\* that owner fails with TooManyCredentials and leaves the list at 500.
C24_CapacityCountsLiveRecords ==
  [][(FreshMint(last') /\ last'.who = last.who /\ last.res = "Ok")
       => /\ (last.op = "delete")
               => /\ last'.res = "Ok"
                  /\ Len(OwnerCredentials'[last.who])
                       = Len(OwnerCredentials[last.who]) + 1
                  /\ Len(OwnerCredentials'[last.who]) <= MaxOwnerCredentials
          /\ (/\ last.op = "mint"
              /\ Len(events) >= 2
              /\ events[Len(events) - 1].kind = "CredentialDeleted"
              /\ events[Len(events) - 1].owner = last.who
              /\ Len(OwnerCredentials[last.who]) = MaxOwnerCredentials)
               => /\ last'.res = "TooManyCredentials"
                  /\ Len(OwnerCredentials'[last.who]) = MaxOwnerCredentials]_vars

\* An owner reached 500 ids, deleted one, minted one again, and the mint
\* after that was rejected for capacity.
C24_Witness ==
  /\ last.op = "mint" /\ last.res = "TooManyCredentials"
  /\ Len(OwnerCredentials[last.who]) = MaxOwnerCredentials
  /\ Len(events) = 3
  /\ events[1].kind = "CredentialMinted"
  /\ events[2].kind = "CredentialDeleted"
  /\ events[3].kind = "CredentialMinted"
  /\ \A i \in 1 .. 3 : events[i].owner = last.who

====
